---------------------------- MODULE Spec2Model ----------------------------
(***************************************************************************)
(* Aegis visualisation pipeline: AegisVisualizer (load_results, plot_all,  *)
(* the seven chart routines, generate_dashboard and the client-side        *)
(* components of the generated dashboard) and the run_full_analysis        *)
(* driver, modelled from src/aegis/visualizations.py and                   *)
(* src/aegis/__init__.py.                                                  *)
(*                                                                         *)
(* Python values are modelled as follows.  A dict read with .get(k, d) or  *)
(* d[k] is a record with a field `has` (the keys present) next to the      *)
(* fields themselves; None is a record with isNone = TRUE.  Angles are     *)
(* exact fractions of a degree (num / den) with 2*pi radians = Turn        *)
(* degrees.  CSV cells are strings; float() and int() are the tables       *)
(* FloatOf and IntOf over the cell texts that occur.                       *)
(***************************************************************************)
EXTENDS Integers, Sequences, FiniteSets, TLC

VARIABLES
    primary,         \* the file output_dir/aegis_analysis.json
    csv,             \* the file output_dir/squad_fit_scores.csv
    plt,             \* self.plt: TRUE when matplotlib was importable
    results,         \* self.results
    squad_fit_data,  \* self.squad_fit_data
    files,           \* artifacts written to output_dir, with what each draws
    out              \* outcome of the last call: what ran, raised, was written

vars == <<primary, csv, plt, results, squad_fit_data, files, out>>

-----------------------------------------------------------------------------
(* Bounds of the model *)

MaxDims == 4
MaxRows == 3
MaxCount == 3
MaxXi == 3
MaxTop == 6
MaxNeeds == 5
MaxSquad == 17

-----------------------------------------------------------------------------
(* Generic helpers *)

Min(a, b) == IF a < b THEN a ELSE b

Range(s) == {s[i] : i \in 1..Len(s)}

\* s[:k]
Take(s, k) == SubSeq(s, 1, Min(k, Len(s)))

\* s[::-1]
Reverse(s) == [i \in 1..Len(s) |-> s[Len(s) + 1 - i]]

\* [f(x) for x in s]
MapSeq(s, F(_)) == [i \in 1..Len(s) |-> F(s[i])]

\* all sequences over S of length at most n
SeqsUpTo(S, n) == UNION {[1..k -> S] : k \in 0..n}

RECURSIVE SumSeq(_)
SumSeq(s) == IF s = <<>> THEN 0 ELSE Head(s) + SumSeq(Tail(s))

\* dict.get(k, d) and `k in dict` on a record that lists its keys in `has`
Has(d, k) == k \in d.has
Get(d, k, dflt) == IF k \in d.has THEN d[k] ELSE dflt

-----------------------------------------------------------------------------
(* The data model: the parsed JSON document and the CSV rows *)

Dim(l, v) == [label |-> l, value |-> v]

Player(pos, nm, score) ==
    [has |-> {"position", "name", "fit_score"},
     position |-> pos, name |-> nm, fit_score |-> score]

Need(pos, g, urg, tl, lo, hi) ==
    [has |-> {"position", "gap", "urgency", "timeline", "cost_low", "cost_high"},
     position |-> pos, gap |-> g, urgency |-> urg, timeline |-> tl,
     cost_low |-> lo, cost_high |-> hi]

Summary(ke, gf, sd, mg) ==
    [has |-> {"key_enablers", "good_fit", "system_dependent", "marginalised", "total"},
     key_enablers |-> ke, good_fit |-> gf, system_dependent |-> sd,
     marginalised |-> mg, total |-> ke + gf + sd + mg]

\* {} where a summary is expected
EmptySummary ==
    [has |-> {}, key_enablers |-> 0, good_fit |-> 0, system_dependent |-> 0,
     marginalised |-> 0, total |-> 0]

\* a row of csv.DictReader: one string per header column
\* (Name, Position, Age, Fit Score, Classification)
Row(nm, pos, age, score, cls) ==
    [Name |-> nm, Position |-> pos, Age |-> age, Fit_Score |-> score,
     Classification |-> cls]

Doc(keys, dims, sm, xi, rec) ==
    [has |-> keys, manager |-> "Thomas Frank", dna_dimensions |-> dims,
     squad_summary |-> sm, ideal_xi |-> xi, recruitment |-> rec]

AllKeys == {"manager", "dna_dimensions", "squad_summary", "ideal_xi", "recruitment"}

\* the JSON object {}
EmptyDoc == Doc({}, <<>>, EmptySummary, <<>>, <<>>)

\* Python None / a loaded value, for self.results and self.squad_fit_data
NoResults == [isNone |-> TRUE, doc |-> EmptyDoc]
SomeResults(d) == [isNone |-> FALSE, doc |-> d]
NoRows == [isNone |-> TRUE, rows |-> <<>>]
SomeRows(rs) == [isNone |-> FALSE, rows |-> rs]

\* the two input files as the filesystem holds them
PrimaryAbsent == [state |-> "absent", doc |-> EmptyDoc]
PrimaryFile(d) == [state |-> "ok", doc |-> d]
CsvAbsent == [exists |-> FALSE, rows |-> <<>>]
CsvFile(rs) == [exists |-> TRUE, rows |-> rs]

-----------------------------------------------------------------------------
(* Conversions of cell and field texts *)

\* float(text): the value, or ValueError for a text that is no number
FloatTexts == {"60", "75", "75.0", "88", "40"}
FloatOf(t) ==
    CASE t = "60" -> 60
      [] t = "75" -> 75
      [] t = "75.0" -> 75
      [] t = "88" -> 88
      [] t = "40" -> 40
      [] OTHER -> 0
FloatRaises(t) == t \notin FloatTexts

\* int(text)
IntTexts == {"24", "31"}
IntOf(t) ==
    CASE t = "24" -> 24
      [] t = "31" -> 31
      [] OTHER -> 0
IntRaises(t) == t \notin IntTexts

\* str.split(): the whitespace-delimited tokens, none of them empty
Split(t) ==
    CASE t = "Harry Kane" -> <<"Harry", "Kane">>
      [] t = "Son" -> <<"Son">>
      [] t = "Van de Ven" -> <<"Van", "de", "Ven">>
      [] t = "Vicario " -> <<"Vicario">>
      [] t = "" -> <<>>
      [] t = " " -> <<>>
      [] OTHER -> <<t>>

-----------------------------------------------------------------------------
(* Colour tables *)

\* AegisVisualizer.COLORS
COLORS ==
    ("Key Enabler" :> "#22c55e") @@ ("Good Fit" :> "#eab308") @@
    ("System Dependent" :> "#f97316") @@ ("Potentially Marginalised" :> "#ef4444") @@
    ("primary" :> "#3b82f6") @@ ("secondary" :> "#64748b")

\* the local table `colors` of plot_recruitment
colors ==
    ("Critical" :> "#ef4444") @@ ("High" :> "#f97316") @@ ("Medium" :> "#eab308")

\* the dashboard's client-side tables
classificationColors ==
    ("Key Enabler" :> "#22c55e") @@ ("Good Fit" :> "#eab308") @@
    ("System Dependent" :> "#f97316") @@ ("Potentially Marginalised" :> "#ef4444")

\* the urgency table with Medium in the lighter yellow-400
urgencyColors_yellow400 ==
    ("Critical" :> "#ef4444") @@ ("High" :> "#f97316") @@ ("Medium" :> "#facc15")

urgencyColors ==
    ("Critical" :> "#ef4444") @@ ("High" :> "#f97316") @@ ("Medium" :> "#eab308")

\* table.get(k, dflt) in Python
TableGet(table, k, dflt) == IF k \in DOMAIN table THEN table[k] ELSE dflt

\* table[k] in JavaScript: undefined for a key the object does not have
JsIndex(table, k) == IF k \in DOMAIN table THEN table[k] ELSE "undefined"

ClassificationLabels ==
    <<"Key Enabler", "Good Fit", "System Dependent", "Potentially Marginalised">>
UrgencyLabels == <<"Critical", "High", "Medium">>

-----------------------------------------------------------------------------
(* What one chart routine does: raise, skip with a notice, or write its file *)

NoChart == [kind |-> "none"]
Raised(exc) == [raised |-> exc, wrote |-> FALSE, chart |-> NoChart, notice |-> ""]
Skipped(msg) == [raised |-> "none", wrote |-> FALSE, chart |-> NoChart, notice |-> msg]
Wrote(c) == [raised |-> "none", wrote |-> TRUE, chart |-> c, notice |-> ""]

\* the first exception of a sequence of evaluations, "none" when none raises
RECURSIVE FirstError(_)
FirstError(errs) ==
    IF errs = <<>> THEN "none"
    ELSE IF Head(errs) # "none" THEN Head(errs)
    ELSE FirstError(Tail(errs))

-----------------------------------------------------------------------------
(* DNA radar: static (plot_dna_radar) and client-side (DNARadar) *)

\* 2 * pi radians, in degrees
Turn == 360
\* ax.set_ylim(0, 100): the outer radius of the polar axes, in data units
YLim == 100
\* const radius = 100 of DNARadar, in SVG units
radius == 100

Frac(n, d) == [num |-> n, den |-> d]

\* np.linspace(0, 2 * np.pi, n, endpoint=False).tolist()
linspace(n) == [k \in 1..n |-> Frac((k - 1) * Turn, n)]

\* the static radar without `values += values[:1]` and `angles += angles[:1]`
DnaRadarChart_open(doc) ==
    LET dimensions == Get(doc, "dna_dimensions", <<>>)
        labels == MapSeq(dimensions, LAMBDA d : d.label)
        values == MapSeq(dimensions, LAMBDA d : d.value)
        angles == linspace(Len(labels))
    IN  [kind |-> "radar", axes |-> "polar", xticklabels |-> labels,
         vertices |-> [i \in 1..Len(angles) |-> [theta |-> angles[i], r |-> Frac(values[i], 1)]],
         outer |-> YLim]

DnaRadarChart(doc) ==
    LET dimensions == Get(doc, "dna_dimensions", <<>>)
        labels == MapSeq(dimensions, LAMBDA d : d.label)
        values0 == MapSeq(dimensions, LAMBDA d : d.value)
        values == values0 \o Take(values0, 1)
        angles0 == linspace(Len(labels))
        angles == angles0 \o Take(angles0, 1)
    IN  [kind |-> "radar", axes |-> "polar", xticklabels |-> labels,
         vertices |-> [i \in 1..Len(angles) |-> [theta |-> angles[i], r |-> Frac(values[i], 1)]],
         outer |-> YLim]

plot_dna_radar_do(self) ==
    IF self.results.isNone THEN Raised("AttributeError")
    ELSE IF ~self.plt THEN Raised("AttributeError")
    ELSE Wrote(DnaRadarChart(self.results.doc))

\* the dashboard's DNARadar component over the embedded dnaDimensions
DNARadar(dnaDimensions) ==
    LET dims == dnaDimensions
        count == Len(dims)
        points == [k \in 1..count |->
                     [theta |-> Frac((k - 1) * Turn - (Turn \div 4) * count, count),
                      r |-> Frac(dims[k].value * radius, 100),
                      label |-> dims[k].label, value |-> dims[k].value]]
    IN  [axes |-> "svg", points |-> points, closepath |-> TRUE, outer |-> radius]

-----------------------------------------------------------------------------
(* Formation usage (placeholder data in the source) *)

plot_formation_usage_do(self) ==
    IF ~self.plt THEN Raised("AttributeError")
    ELSE Wrote([kind |-> "formation",
                formations |-> <<"4-3-3", "3-5-2", "4-2-3-1", "3-4-3", "5-3-2">>,
                usage_tenths |-> <<395, 263, 171, 105, 66>>])

-----------------------------------------------------------------------------
(* Squad fit ranking *)

\* list.sort() without reverse: stable, ascending by key (binary insertion
\* keeps an element behind the equal ones already placed)
RECURSIVE InsertAsc(_, _)
InsertAsc(s, x) ==
    IF s = <<>> THEN <<x>>
    ELSE IF s[Len(s)].key <= x.key THEN Append(s, x)
    ELSE Append(InsertAsc(SubSeq(s, 1, Len(s) - 1), x), s[Len(s)])

RECURSIVE StableSortAsc(_)
StableSortAsc(s) ==
    IF s = <<>> THEN <<>>
    ELSE InsertAsc(StableSortAsc(SubSeq(s, 1, Len(s) - 1)), s[Len(s)])

\* a descending sort that only reverses the ascending one
SortReverse_unstable(keyed) == Reverse(StableSortAsc(keyed))

\* list.sort(key=..., reverse=True) on keyed items: the list is reversed,
\* sorted ascending (stable), and reversed again
SortReverse(keyed) == Reverse(StableSortAsc(Reverse(keyed)))

\* players.sort(key=lambda x: float(x.get("Fit Score", 0)), reverse=True)
SortPlayers(players) ==
    MapSeq(SortReverse(MapSeq(players, LAMBDA p : [key |-> FloatOf(p.Fit_Score), item |-> p])),
           LAMBDA k : k.item)

SquadFitChart_static(players) ==
    LET sorted == SortPlayers(players)
    IN  [kind |-> "squad_fit",
         bars |-> MapSeq(sorted, LAMBDA p :
                    [name |-> p.Name, score |-> FloatOf(p.Fit_Score),
                     color |-> TableGet(COLORS, p.Classification, COLORS["secondary"]),
                     label |-> p.Classification, row |-> p]),
         legend |-> MapSeq(ClassificationLabels, LAMBDA c : [label |-> c, color |-> COLORS[c]])]

\* plot_squad_fit without `if not players: ... return`
plot_squad_fit_do_noskip(self, csvfile) ==
    LET players == IF csvfile.exists THEN csvfile.rows ELSE <<>>
    IN  IF \E i \in 1..Len(players) : FloatRaises(players[i].Fit_Score)
        THEN Raised("ValueError")
        ELSE IF ~self.plt THEN Raised("AttributeError")
        ELSE Wrote(SquadFitChart_static(players))

plot_squad_fit_do(self, csvfile) ==
    LET players == IF csvfile.exists THEN csvfile.rows ELSE <<>>
    IN  IF players = <<>> THEN Skipped("No squad fit data")
        ELSE IF \E i \in 1..Len(players) : FloatRaises(players[i].Fit_Score)
             THEN Raised("ValueError")
        ELSE IF ~self.plt THEN Raised("AttributeError")
        ELSE Wrote(SquadFitChart_static(players))

-----------------------------------------------------------------------------
(* Classification pie *)

\* the filter of PieWedges with `s > 1` in place of `s > 0`
PieWedges_above1(summary) ==
    LET sizes == <<Get(summary, "key_enablers", 0), Get(summary, "good_fit", 0),
                   Get(summary, "system_dependent", 0), Get(summary, "marginalised", 0)>>
        all == [i \in 1..4 |-> [label |-> ClassificationLabels[i], size |-> sizes[i],
                                 color |-> COLORS[ClassificationLabels[i]]]]
    IN  SelectSeq(all, LAMBDA w : w.size > 1)

\* [(l, s, c) for l, s, c in zip(labels, sizes, colors) if s > 0]
PieWedges(summary) ==
    LET sizes == <<Get(summary, "key_enablers", 0), Get(summary, "good_fit", 0),
                   Get(summary, "system_dependent", 0), Get(summary, "marginalised", 0)>>
        all == [i \in 1..4 |-> [label |-> ClassificationLabels[i], size |-> sizes[i],
                                 color |-> COLORS[ClassificationLabels[i]]]]
    IN  SelectSeq(all, LAMBDA w : w.size > 0)

\* "%1.0f" % (n / d): the nearest integer, a tie going to the even one
Format_1_0f(n, d) ==
    LET q == n \div d
        r == n % d
    IN  IF 2 * r > d \/ (2 * r = d /\ q % 2 = 1) THEN q + 1 ELSE q

\* ax.pie(sizes, labels=labels, colors=colors, autopct="%1.0f%%"): a wedge
\* spans size / sum(sizes) of the circle and carries that share as a
\* percentage text
Pie(data) ==
    LET total == SumSeq(MapSeq(data, LAMBDA w : w.size))
    IN  MapSeq(data, LAMBDA w :
            [label |-> w.label, size |-> w.size, color |-> w.color,
             share |-> Frac(w.size, total), autopct |-> Format_1_0f(100 * w.size, total)])

plot_classification_pie_do(self) ==
    IF self.results.isNone THEN Raised("AttributeError")
    ELSE LET data == PieWedges(Get(self.results.doc, "squad_summary", EmptySummary))
         IN  IF data = <<>> THEN Skipped("")
             ELSE IF ~self.plt THEN Raised("AttributeError")
             ELSE Wrote([kind |-> "pie", wedges |-> Pie(data)])

-----------------------------------------------------------------------------
(* Ideal XI pitch *)

\* the local table `positions` of plot_ideal_xi
positions ==
    ("GK" :> <<50, 92>>) @@ ("LB" :> <<15, 70>>) @@ ("CB1" :> <<35, 75>>) @@
    ("CB2" :> <<65, 75>>) @@ ("RB" :> <<85, 70>>) @@ ("DM" :> <<50, 55>>) @@
    ("CM" :> <<30, 45>>) @@ ("AM" :> <<70, 45>>) @@ ("LW" :> <<15, 25>>) @@
    ("CF" :> <<50, 15>>) @@ ("RW" :> <<85, 25>>)

\* the tiers with `>` in place of `>=`
TierColor_exclusive(score) ==
    IF score > 75 THEN COLORS["Key Enabler"]
    ELSE IF score > 60 THEN COLORS["Good Fit"]
    ELSE COLORS["System Dependent"]

\* the colour tier of a marker
TierColor(score) ==
    IF score >= 75 THEN COLORS["Key Enabler"]
    ELSE IF score >= 60 THEN COLORS["Good Fit"]
    ELSE COLORS["System Dependent"]

\* the players of the loop that get a marker
Placed(ideal_xi) == SelectSeq(ideal_xi, LAMBDA p : Get(p, "position", "") \in DOMAIN positions)

\* player.get("name", "").split()[-1]
SurnameError(p) == IF Split(Get(p, "name", "")) = <<>> THEN "IndexError" ELSE "none"
Surname(p) == LET t == Split(Get(p, "name", "")) IN t[Len(t)]

Marker(p) ==
    [slot |-> p.position,
     x |-> positions[p.position][1], y |-> positions[p.position][2],
     color |-> TierColor(Get(p, "fit_score", 0)), score |-> Get(p, "fit_score", 0),
     name |-> Surname(p)]

plot_ideal_xi_do(self) ==
    IF self.results.isNone THEN Raised("AttributeError")
    ELSE IF ~self.plt THEN Raised("AttributeError")
    ELSE LET placed == Placed(Get(self.results.doc, "ideal_xi", <<>>))
             err == FirstError(MapSeq(placed, SurnameError))
         IN  IF err # "none" THEN Raised(err)
             ELSE Wrote([kind |-> "pitch", markers |-> MapSeq(placed, Marker)])

-----------------------------------------------------------------------------
(* Recruitment priorities *)

\* r["position"], r["gap"], r["urgency"], then r['cost_low'], r['cost_high']
NeedError(r) ==
    IF {"position", "gap", "urgency", "cost_low", "cost_high"} \subseteq r.has
    THEN "none" ELSE "KeyError"

RECURSIVE MaxSeq(_)
MaxSeq(s) ==
    IF Len(s) = 1 THEN s[1]
    ELSE LET m == MaxSeq(Tail(s)) IN IF Head(s) >= m THEN Head(s) ELSE m

RecruitmentBar(r) ==
    [position |-> r.position, gap |-> r.gap,
     color |-> TableGet(colors, r.urgency, "#64748b"), label |-> r.urgency,
     cost_low |-> r.cost_low, cost_high |-> r.cost_high]

plot_recruitment_do(self) ==
    IF self.results.isNone THEN Raised("AttributeError")
    ELSE LET recruitment == Get(self.results.doc, "recruitment", <<>>)
             err == FirstError(MapSeq(recruitment, NeedError))
         IN  IF recruitment = <<>> THEN Skipped("No recruitment priorities")
             ELSE IF ~self.plt THEN Raised("AttributeError")
             ELSE IF err # "none" THEN Raised(err)
             ELSE Wrote([kind |-> "recruitment",
                         bars |-> MapSeq(recruitment, RecruitmentBar),
                         xlim_halves |-> 3 * MaxSeq(MapSeq(recruitment, LAMBDA r : r.gap)),
                         legend |-> MapSeq(UrgencyLabels, LAMBDA u : [label |-> u, color |-> colors[u]])])

-----------------------------------------------------------------------------
(* Executive summary *)

\* p["name"].split()[-1], then p["fit_score"]
TopNameError(p) ==
    IF ~Has(p, "name") THEN "KeyError"
    ELSE IF Split(p.name) = <<>> THEN "IndexError" ELSE "none"
TopScoreError(p) == IF Has(p, "fit_score") THEN "none" ELSE "KeyError"

\* r["position"], then r["gap"]
TopNeedError(r) == IF {"position", "gap"} \subseteq r.has THEN "none" ELSE "KeyError"

\* the summary with the investment totals taken over the four entries shown
ExecutiveSummaryChart_top4(doc) ==
    LET dims == Get(doc, "dna_dimensions", <<>>)
        summary == Get(doc, "squad_summary", EmptySummary)
        ideal == Take(Get(doc, "ideal_xi", <<>>), 5)
        recruitment == Take(Get(doc, "recruitment", <<>>), 4)
    IN  [kind |-> "summary",
         dna_bars |-> dims,
         pie |-> PieWedges(summary),
         squad_size |-> Get(summary, "total", 0),
         key_enablers |-> Get(summary, "key_enablers", 0),
         top5 |-> MapSeq(ideal, LAMBDA p : [name |-> Surname(p), score |-> p.fit_score]),
         needs |-> MapSeq(recruitment, LAMBDA r : [position |-> r.position, gap |-> r.gap]),
         total_low |-> SumSeq(MapSeq(recruitment, LAMBDA r : Get(r, "cost_low", 0))),
         total_high |-> SumSeq(MapSeq(recruitment, LAMBDA r : Get(r, "cost_high", 0))),
         signings |-> Len(recruitment)]

ExecutiveSummaryChart(doc) ==
    LET dims == Get(doc, "dna_dimensions", <<>>)
        summary == Get(doc, "squad_summary", EmptySummary)
        ideal == Take(Get(doc, "ideal_xi", <<>>), 5)
        recruitment == Take(Get(doc, "recruitment", <<>>), 4)
        recruitment_full == Get(doc, "recruitment", <<>>)
    IN  [kind |-> "summary",
         dna_bars |-> dims,
         pie |-> PieWedges(summary),
         squad_size |-> Get(summary, "total", 0),
         key_enablers |-> Get(summary, "key_enablers", 0),
         top5 |-> MapSeq(ideal, LAMBDA p : [name |-> Surname(p), score |-> p.fit_score]),
         needs |-> MapSeq(recruitment, LAMBDA r : [position |-> r.position, gap |-> r.gap]),
         total_low |-> SumSeq(MapSeq(recruitment_full, LAMBDA r : Get(r, "cost_low", 0))),
         total_high |-> SumSeq(MapSeq(recruitment_full, LAMBDA r : Get(r, "cost_high", 0))),
         signings |-> Len(recruitment_full)]

\* the summary scaling the top-5 panel to max(scores) with no `if ideal:`
plot_executive_summary_do_unguarded(self) ==
    IF ~self.plt THEN Raised("AttributeError")
    ELSE IF self.results.isNone THEN Raised("AttributeError")
    ELSE LET doc == self.results.doc
             ideal == Take(Get(doc, "ideal_xi", <<>>), 5)
             recruitment == Take(Get(doc, "recruitment", <<>>), 4)
             err == FirstError(MapSeq(ideal, TopNameError) \o MapSeq(ideal, TopScoreError)
                               \o (IF ideal = <<>> THEN <<"ValueError">> ELSE <<>>)
                               \o MapSeq(recruitment, TopNeedError))
         IN  IF err # "none" THEN Raised(err)
             ELSE Wrote(ExecutiveSummaryChart(doc))

plot_executive_summary_do(self) ==
    IF ~self.plt THEN Raised("AttributeError")
    ELSE IF self.results.isNone THEN Raised("AttributeError")
    ELSE LET doc == self.results.doc
             ideal == Take(Get(doc, "ideal_xi", <<>>), 5)
             recruitment == Take(Get(doc, "recruitment", <<>>), 4)
             err == FirstError(MapSeq(ideal, TopNameError) \o MapSeq(ideal, TopScoreError)
                               \o MapSeq(recruitment, TopNeedError))
         IN  IF err # "none" THEN Raised(err)
             ELSE Wrote(ExecutiveSummaryChart(doc))

-----------------------------------------------------------------------------
(* Interactive dashboard: the assembler and the client-side components *)

\* the reshaping of one CSV row for embedding
Reshape(p) ==
    [name |-> p.Name, position |-> p.Position, age |-> IntOf(p.Age),
     score |-> FloatOf(p.Fit_Score), classification |-> p.Classification]

\* int(p.get("Age", 25)), then float(p.get("Fit Score", 0))
ReshapeError(p) ==
    IF IntRaises(p.Age) \/ FloatRaises(p.Fit_Score) THEN "ValueError" ELSE "none"

\* [...a].sort((a, b) => b.score - a.score): stable, an element goes behind
\* every element the comparator does not order after it
RECURSIVE JsInsert(_, _)
JsInsert(s, x) ==
    IF s = <<>> THEN <<x>>
    ELSE IF x.score - s[Len(s)].score <= 0 THEN Append(s, x)
    ELSE Append(JsInsert(SubSeq(s, 1, Len(s) - 1), x), s[Len(s)])

RECURSIVE JsSortByScore(_)
JsSortByScore(s) ==
    IF s = <<>> THEN <<>>
    ELSE JsInsert(JsSortByScore(SubSeq(s, 1, Len(s) - 1)), s[Len(s)])

\* SquadFitChart taking the first 15 rows before it sorts them
SquadFitChart_slicefirst(squadFit) ==
    MapSeq(JsSortByScore(Take(squadFit, 15)), LAMBDA player :
        [name |-> player.name, score |-> player.score,
         color |-> JsIndex(classificationColors, player.classification),
         label |-> player.classification])

\* the SquadFitChart component: bars of the top 15
SquadFitChart(squadFit) ==
    MapSeq(Take(JsSortByScore(squadFit), 15), LAMBDA player :
        [name |-> player.name, score |-> player.score,
         color |-> JsIndex(classificationColors, player.classification),
         label |-> player.classification])

\* the Full Squad table: one row per player, with a classification badge
FullSquadTable(squadFit) ==
    MapSeq(JsSortByScore(squadFit), LAMBDA p :
        [name |-> p.name, score |-> p.score,
         color |-> JsIndex(classificationColors, p.classification),
         label |-> p.classification])

\* the RecruitmentTable component: one row per entry, with an urgency badge
RecruitmentTable(recruitment) ==
    MapSeq(recruitment, LAMBDA r :
        [position |-> Get(r, "position", "undefined"),
         color |-> JsIndex(urgencyColors, Get(r, "urgency", "undefined")),
         label |-> Get(r, "urgency", "undefined")])

\* the table `positions` of the IdealXIPitch component (x and y in percent
\* of the pitch box, from its left and from its top)
IdealXIPitch_positions ==
    ("GK" :> <<50, 90>>) @@ ("LB" :> <<15, 70>>) @@ ("CB1" :> <<35, 75>>) @@
    ("CB2" :> <<65, 75>>) @@ ("RB" :> <<85, 70>>) @@ ("DM" :> <<50, 55>>) @@
    ("CM" :> <<30, 45>>) @@ ("AM" :> <<70, 45>>) @@ ("LW" :> <<15, 25>>) @@
    ("CF" :> <<50, 15>>) @@ ("RW" :> <<85, 25>>)

\* the background colours of the Tailwind classes the pitch markers use
tailwind ==
    ("bg-green-500" :> "#22c55e") @@ ("bg-yellow-500" :> "#eab308") @@
    ("bg-orange-500" :> "#f97316")

\* score >= 75 ? 'bg-green-500' : score >= 60 ? 'bg-yellow-500' : 'bg-orange-500'
bgColor(score) ==
    IF score >= 75 THEN "bg-green-500"
    ELSE IF score >= 60 THEN "bg-yellow-500"
    ELSE "bg-orange-500"

\* text.split(' ') in JavaScript: the pieces between single spaces, the
\* empty ones included
JsSplit(t) ==
    CASE t = "Harry Kane" -> <<"Harry", "Kane">>
      [] t = "Son" -> <<"Son">>
      [] t = "Van de Ven" -> <<"Van", "de", "Ven">>
      [] t = "Vicario " -> <<"Vicario", "">>
      [] t = "" -> <<"">>
      [] t = " " -> <<"", "">>
      [] OTHER -> <<t>>

\* player.name?.split(' ').pop() || 'Unknown'
JsSurname(player) ==
    IF ~Has(player, "name") THEN "Unknown"
    ELSE LET t == JsSplit(player.name)
         IN  IF t[Len(t)] = "" THEN "Unknown" ELSE t[Len(t)]

\* the IdealXIPitch component: one marker per player whose position is a key
\* of the table, nothing for the others
IdealXIPitch(idealXI) ==
    MapSeq(SelectSeq(idealXI, LAMBDA player :
                Has(player, "position") /\ player.position \in DOMAIN IdealXIPitch_positions),
           LAMBDA player :
               [slot |-> player.position,
                x |-> IdealXIPitch_positions[player.position][1],
                y |-> IdealXIPitch_positions[player.position][2],
                color |-> tailwind[bgColor(Get(player, "fit_score", 0))],
                score |-> Get(player, "fit_score", 0),
                name |-> JsSurname(player)])

\* one window box of the Recruitment tab: the number of entries whose
\* timeline === window, and a line per such entry with its position and its
\* two costs (a missing cost is printed as "undefined")
RecruitmentWindow(recruitment, window) ==
    LET entries == SelectSeq(recruitment, LAMBDA r : Has(r, "timeline") /\ r.timeline = window)
    IN  [signings |-> Len(entries),
         items |-> MapSeq(entries, LAMBDA r :
                      [position |-> Get(r, "position", "undefined"),
                       cost_low |-> Get(r, "cost_low", 0),
                       cost_high |-> Get(r, "cost_high", 0),
                       undefined |-> {"cost_low", "cost_high"} \ r.has])]

\* the two boxes of the Recruitment tab
RecruitmentWindows(recruitment) ==
    [window \in {"January", "Summer"} |-> RecruitmentWindow(recruitment, window)]

\* _generate_dashboard_html: the embedded data and what the document renders
DashboardDocument(dna_dimensions, squad_summary, squad_fit, ideal_xi, recruitment) ==
    [kind |-> "dashboard",
     dnaDimensions |-> dna_dimensions, squadSummary |-> squad_summary,
     squadFit |-> squad_fit, idealXI |-> ideal_xi, recruitment |-> recruitment,
     radar |-> DNARadar(dna_dimensions),
     classificationColors |-> classificationColors, urgencyColors |-> urgencyColors,
     pitch |-> IdealXIPitch(ideal_xi),
     totalInvestLow |-> SumSeq(MapSeq(recruitment, LAMBDA b : Get(b, "cost_low", 0))),
     totalInvestHigh |-> SumSeq(MapSeq(recruitment, LAMBDA b : Get(b, "cost_high", 0))),
     squadChart |-> SquadFitChart(squad_fit),
     squadTable |-> FullSquadTable(squad_fit),
     recruitmentWindows |-> RecruitmentWindows(recruitment),
     recruitmentTable |-> RecruitmentTable(recruitment)]

\* `not self.results`: None or an empty dict
ResultsFalsy(r) == r.isNone \/ r.doc.has = {}
\* `if self.squad_fit_data:`: neither None nor an empty list
RowsTruthy(d) == ~d.isNone /\ d.rows # <<>>

\* generate_dashboard embedding the rows ranked by score
generate_dashboard_do_ranked(self) ==
    IF ResultsFalsy(self.results) THEN Raised("ValueError")
    ELSE LET doc == self.results.doc
             rows == IF RowsTruthy(self.squad_fit_data) THEN self.squad_fit_data.rows ELSE <<>>
             err == FirstError(MapSeq(rows, ReshapeError))
         IN  IF err # "none" THEN Raised(err)
             ELSE Wrote(DashboardDocument(Get(doc, "dna_dimensions", <<>>),
                                          Get(doc, "squad_summary", EmptySummary),
                                          JsSortByScore(MapSeq(rows, Reshape)),
                                          Get(doc, "ideal_xi", <<>>),
                                          Get(doc, "recruitment", <<>>)))

generate_dashboard_do(self) ==
    IF ResultsFalsy(self.results) THEN Raised("ValueError")
    ELSE LET doc == self.results.doc
             rows == IF RowsTruthy(self.squad_fit_data) THEN self.squad_fit_data.rows ELSE <<>>
             err == FirstError(MapSeq(rows, ReshapeError))
         IN  IF err # "none" THEN Raised(err)
             ELSE Wrote(DashboardDocument(Get(doc, "dna_dimensions", <<>>),
                                          Get(doc, "squad_summary", EmptySummary),
                                          MapSeq(rows, Reshape),
                                          Get(doc, "ideal_xi", <<>>),
                                          Get(doc, "recruitment", <<>>)))

-----------------------------------------------------------------------------
(* The loader and the batch *)

\* AegisVisualizer.__init__: matplotlib importable or not, nothing loaded
NewVisualizer(hasPlt) == [plt |-> hasPlt, results |-> NoResults, squad_fit_data |-> NoRows]

\* load_results clearing the visualizer before it reads the files
load_results_do_reset(self, pf, cf) ==
    IF pf.state = "absent"
    THEN [raised |-> "FileNotFoundError",
          self |-> [self EXCEPT !.results = NoResults, !.squad_fit_data = NoRows]]
    ELSE IF pf.state = "corrupt"
    THEN [raised |-> "JSONDecodeError",
          self |-> [self EXCEPT !.results = NoResults, !.squad_fit_data = NoRows]]
    ELSE [raised |-> "none",
          self |-> [self EXCEPT !.results = SomeResults(pf.doc),
                                !.squad_fit_data = IF cf.exists THEN SomeRows(cf.rows) ELSE @]]

\* load_results on a visualizer, given the two files
load_results_do(self, pf, cf) ==
    IF pf.state = "absent" THEN [raised |-> "FileNotFoundError", self |-> self]
    ELSE IF pf.state = "corrupt" THEN [raised |-> "JSONDecodeError", self |-> self]
    ELSE [raised |-> "none",
          self |-> [self EXCEPT !.results = SomeResults(pf.doc),
                                !.squad_fit_data = IF cf.exists THEN SomeRows(cf.rows) ELSE @]]

\* the seven chart routines in the order plot_all calls them, and their files
Routines ==
    <<"plot_dna_radar", "plot_formation_usage", "plot_squad_fit",
      "plot_classification_pie", "plot_ideal_xi", "plot_recruitment",
      "plot_executive_summary">>

FileOf(op) ==
    CASE op = "plot_dna_radar" -> "01_manager_dna_radar.png"
      [] op = "plot_formation_usage" -> "02_formation_usage.png"
      [] op = "plot_squad_fit" -> "03_squad_fit_scores.png"
      [] op = "plot_classification_pie" -> "04_classification_pie.png"
      [] op = "plot_ideal_xi" -> "05_ideal_xi_pitch.png"
      [] op = "plot_recruitment" -> "06_recruitment_priorities.png"
      [] op = "plot_executive_summary" -> "07_executive_summary.png"
      [] OTHER -> "AEGIS_Dashboard.html"

RasterFiles == {FileOf(Routines[i]) : i \in 1..Len(Routines)}
FileNames == RasterFiles \cup {"AEGIS_Dashboard.html"}

Routine(op, self, cf) ==
    CASE op = "plot_dna_radar" -> plot_dna_radar_do(self)
      [] op = "plot_formation_usage" -> plot_formation_usage_do(self)
      [] op = "plot_squad_fit" -> plot_squad_fit_do(self, cf)
      [] op = "plot_classification_pie" -> plot_classification_pie_do(self)
      [] op = "plot_ideal_xi" -> plot_ideal_xi_do(self)
      [] op = "plot_recruitment" -> plot_recruitment_do(self)
      [] op = "plot_executive_summary" -> plot_executive_summary_do(self)
      [] OTHER -> generate_dashboard_do(self)

\* the record of one call: the routines entered, the exception that left the
\* call (raised) or was caught inside it (caught), the files written and the
\* notices printed
Outcome(op, exc, ran, charts, notices) ==
    [op |-> op, raised |-> exc, caught |-> "none", ran |-> ran,
     written |-> {f \in FileNames : charts[f] # NoChart}, charts |-> charts,
     notices |-> notices]

NoCharts == [f \in FileNames |-> NoChart]

\* the line a routine prints before it returns: its file name behind a tick
\* (written here "ok") after savefig, or its skip notice; "" when it prints
\* nothing
Notice(op, o) == IF o.wrote THEN "ok " \o FileOf(op) ELSE o.notice

\* one routine called on its own
SingleOutcome(op, o) ==
    Outcome(op, o.raised, <<op>>,
            [NoCharts EXCEPT ![FileOf(op)] = o.chart],
            IF Notice(op, o) = "" THEN <<>> ELSE <<Notice(op, o)>>)

Single(op, self, cf) == SingleOutcome(op, Routine(op, self, cf))

\* the batch after routine op ended as o
Step(acc, op, o) ==
    [acc EXCEPT !.raised = o.raised,
                !.ran = Append(@, op),
                !.charts[FileOf(op)] = o.chart,
                !.notices = IF Notice(op, o) = "" THEN @ ELSE Append(@, Notice(op, o))]

\* the calls of plot_all from the k-th on: an exception leaves the batch
RECURSIVE Batch(_, _, _, _)
Continue(k, self, cf, acc) ==
    IF acc.raised # "none" THEN acc ELSE Batch(k + 1, self, cf, acc)

Batch(k, self, cf, acc) ==
    IF k > Len(Routines) THEN acc
    ELSE Continue(k, self, cf, Step(acc, Routines[k], Routine(Routines[k], self, cf)))

BatchOutcome(b) == Outcome("plot_all", b.raised, b.ran, b.charts, b.notices)

\* plot_all without its check of self.plt
plot_all_do_unchecked(self, cf) ==
    BatchOutcome(Batch(1, self, cf,
                       [raised |-> "none", ran |-> <<>>, charts |-> NoCharts, notices |-> <<>>]))

plot_all_do(self, cf) ==
    IF ~self.plt
    THEN Outcome("plot_all", "none", <<>>, NoCharts, <<"matplotlib required for visualizations">>)
    ELSE BatchOutcome(Batch(1, self, cf,
                            [raised |-> "none", ran |-> <<>>, charts |-> NoCharts, notices |-> <<>>]))

-----------------------------------------------------------------------------
(* Inputs of the pipeline specifications *)

DimsExample == <<Dim("Pressing", 100), Dim("Possession", 0), Dim("Tempo", 50)>>

\* "SS" is no slot of the pitch table
XiGood == <<Player("GK", "Vicario ", 70), Player("CF", "Harry Kane", 88), Player("SS", "Son", 75)>>
\* a placed player with an empty name
XiEmptyName == <<Player("GK", "Vicario ", 70), Player("CB1", "", 62), Player("CF", "Harry Kane", 88)>>

\* "Low" is no urgency of the urgency table
RecGood == <<Need("CB", 10, "Critical", "January", 10, 20), Need("LW", 5, "Low", "Summer", 5, 8)>>

DocGood == Doc(AllKeys, DimsExample, Summary(2, 1, 1, 0), XiGood, RecGood)
DocEmptyName == Doc(AllKeys, DimsExample, Summary(2, 1, 1, 0), XiEmptyName, RecGood)
DocSparse == Doc({"manager"}, <<>>, EmptySummary, <<>>, <<>>)
Docs == {DocGood, DocEmptyName, DocSparse, EmptyDoc}

\* "Rotation" is no classification of the colour table
RowsGood ==
    <<Row("Son", "LW", "31", "75", "Good Fit"), Row("Kane", "CF", "31", "88", "Key Enabler"),
      Row("Udogie", "LB", "24", "75.0", "Rotation")>>
\* a score cell that is no number
RowsBadScore == <<Row("Kane", "CF", "31", "n/a", "Key Enabler")>>
Csvs == {CsvAbsent, CsvFile(<<>>), CsvFile(RowsGood), CsvFile(RowsBadScore)}

-----------------------------------------------------------------------------
(* The state machine *)

Self == [plt |-> plt, results |-> results, squad_fit_data |-> squad_fit_data]

\* the output directory after a call that wrote `charts`
Save(charts) == [f \in FileNames |-> IF charts[f] # NoChart THEN charts[f] ELSE files[f]]

InitWith(P, C) ==
    /\ primary \in P
    /\ csv \in C
    /\ plt \in BOOLEAN
    /\ results = NoResults
    /\ squad_fit_data = NoRows
    /\ files = NoCharts
    /\ out = Outcome("__init__", "none", <<>>, NoCharts,
                     IF plt THEN <<>> ELSE <<"matplotlib not installed">>)

Init == InitWith({PrimaryAbsent} \cup {PrimaryFile(d) : d \in Docs}, Csvs)

load_results ==
    LET l == load_results_do(Self, primary, csv)
    IN  /\ results' = l.self.results
        /\ squad_fit_data' = l.self.squad_fit_data
        /\ out' = Outcome("load_results", l.raised, <<>>, NoCharts, <<>>)
        /\ UNCHANGED <<primary, csv, plt, files>>

\* what a call that rendered leaves behind: its files in the output
\* directory, the inputs and the visualizer as they were
Rendered ==
    /\ files' = Save(out'.charts)
    /\ UNCHANGED <<primary, csv, plt, results, squad_fit_data>>

\* plot_dna_radar closing the loop on the loaded list itself
plot_dna_radar_inplace ==
    /\ out' = Single("plot_dna_radar", Self, csv)
    /\ files' = Save(out'.charts)
    /\ results' = IF results.isNone THEN results
                  ELSE [results EXCEPT !.doc.dna_dimensions = @ \o Take(@, 1)]
    /\ UNCHANGED <<primary, csv, plt, squad_fit_data>>

\* plot_squad_fit sorting self.squad_fit_data itself
plot_squad_fit_inplace ==
    /\ out' = Single("plot_squad_fit", Self, csv)
    /\ files' = Save(out'.charts)
    /\ squad_fit_data' = IF out'.written = {} \/ squad_fit_data.isNone THEN squad_fit_data
                         ELSE SomeRows(SortPlayers(squad_fit_data.rows))
    /\ UNCHANGED <<primary, csv, plt, results>>

\* the chart routines and generate_dashboard called directly on the visualizer
plot_dna_radar == out' = Single("plot_dna_radar", Self, csv) /\ Rendered

plot_formation_usage == out' = Single("plot_formation_usage", Self, csv) /\ Rendered

plot_squad_fit == out' = Single("plot_squad_fit", Self, csv) /\ Rendered

plot_classification_pie == out' = Single("plot_classification_pie", Self, csv) /\ Rendered

plot_ideal_xi == out' = Single("plot_ideal_xi", Self, csv) /\ Rendered

plot_recruitment == out' = Single("plot_recruitment", Self, csv) /\ Rendered

plot_executive_summary == out' = Single("plot_executive_summary", Self, csv) /\ Rendered

generate_dashboard == out' = Single("generate_dashboard", Self, csv) /\ Rendered

plot_all == out' = plot_all_do(Self, csv) /\ Rendered

\* the Visualize step of run_full_analysis: a visualizer of its own, and
\* every exception caught and printed
Caught(exc, b) ==
    [Outcome("run_full_analysis", "none", b.ran, b.charts,
             Append(b.notices, "Visualization error")) EXCEPT !.caught = exc]

AfterPlotAll(b) ==
    IF b.raised # "none" THEN Caught(b.raised, b)
    ELSE Outcome("run_full_analysis", "none", b.ran, b.charts, b.notices)

\* the driver with only plot_all inside its try block's reach: a failed load
\* is printed and the batch is started all the same
AfterLoad_continues(l, cf) == AfterPlotAll(plot_all_do(l.self, cf))

AfterLoad(l, cf) ==
    IF l.raised # "none"
    THEN Caught(l.raised, [ran |-> <<>>, charts |-> NoCharts, notices |-> <<>>])
    ELSE AfterPlotAll(plot_all_do(l.self, cf))

run_full_analysis_do(visualize, hasPlt, pf, cf) ==
    IF ~visualize THEN Outcome("run_full_analysis", "none", <<>>, NoCharts, <<>>)
    ELSE AfterLoad(load_results_do(NewVisualizer(hasPlt), pf, cf), cf)

run_full_analysis ==
    \E visualize \in BOOLEAN :
        out' = run_full_analysis_do(visualize, plt, primary, csv) /\ Rendered

\* the environment: the input files are removed or damaged between calls
Filesystem(pf, cf) ==
    /\ primary' = pf
    /\ csv' = cf
    /\ out' = Outcome("filesystem", "none", <<>>, NoCharts, <<>>)
    /\ UNCHANGED <<plt, results, squad_fit_data, files>>

remove_primary == primary.state # "absent" /\ Filesystem(PrimaryAbsent, csv)
corrupt_primary == primary.state = "ok" /\ Filesystem([state |-> "corrupt", doc |-> EmptyDoc], csv)
remove_csv == csv.exists /\ Filesystem(primary, CsvAbsent)

Next ==
    \/ load_results
    \/ plot_all
    \/ generate_dashboard
    \/ run_full_analysis
    \/ remove_primary
    \/ corrupt_primary
    \/ remove_csv

Spec == Init /\ [][Next]_vars

-----------------------------------------------------------------------------
(* The renderers called one by one, in any order, on unchanging inputs *)

NextRender ==
    \/ load_results
    \/ plot_dna_radar
    \/ plot_formation_usage
    \/ plot_squad_fit
    \/ plot_classification_pie
    \/ plot_ideal_xi
    \/ plot_recruitment
    \/ plot_executive_summary
    \/ generate_dashboard

SpecRender == Init /\ [][NextRender]_vars

-----------------------------------------------------------------------------
(* The radar geometry over every profile of at most MaxDims dimensions *)

DimLabels ==
    <<"Pressing", "Possession", "Tempo", "Width", "Directness", "Compactness",
      "Transitions", "Set Pieces">>
DimValues == {0, 50, 100}

\* every ordered profile: the k-th dimension is DimLabels[k]
Profiles ==
    UNION {{[i \in 1..k |-> Dim(DimLabels[i], v[i])] : v \in [1..k -> DimValues]} : k \in 0..MaxDims}

InitRadar ==
    InitWith({PrimaryFile(Doc(AllKeys, dims, Summary(2, 1, 1, 0), XiGood, RecGood)) : dims \in Profiles},
             {CsvAbsent})

NextRadar ==
    \/ load_results
    \/ plot_dna_radar
    \/ generate_dashboard

SpecRadar == InitRadar /\ [][NextRadar]_vars

-----------------------------------------------------------------------------
(* The squad ranking over every table of at most MaxRows rows *)

SquadRows ==
    {Row("Son", "LW", "31", "75", "Good Fit"), Row("Udogie", "LB", "24", "75.0", "Rotation"),
     Row("Kane", "CF", "31", "88", "Key Enabler"), Row("Gray", "CM", "24", "60", "System Dependent")}

InitSquad == InitWith({PrimaryFile(DocGood)}, {CsvFile(rs) : rs \in SeqsUpTo(SquadRows, MaxRows)})

NextSquad ==
    \/ load_results
    \/ plot_squad_fit
    \/ generate_dashboard

SpecSquad == InitSquad /\ [][NextSquad]_vars

-----------------------------------------------------------------------------
(* Claims about the loader, the batch and the driver (Spec) *)

\* a routine whose own inputs are renderable: called on its own, now, it
\* writes its file
Renderable(op) == Routine(op, Self, csv).wrote

\* C1: load_results raises when aegis_analysis.json is absent, and succeeds
\* with an empty squad row list when the document is present and only
\* squad_fit_scores.csv is absent.
C1_LoaderContract ==
    out.op = "load_results" =>
        /\ primary.state = "absent" => out.raised = "FileNotFoundError"
        /\ primary.state = "ok" /\ ~csv.exists =>
               out.raised = "none" /\ squad_fit_data.rows = <<>>

\* C2: in a plot_all batch (on a loaded visualizer, with matplotlib) a routine
\* that raises does not keep the routines after it from producing their
\* files: every routine whose own inputs are renderable has its file written
\* by the batch.
C2_FailureDoesNotBlockLater ==
    out.op = "plot_all" /\ plt /\ ~results.isNone =>
        \A i \in 1..Len(Routines) :
            Renderable(Routines[i]) => FileOf(Routines[i]) \in out.written

\* C3: when the primary document is missing or unparsable, the driver's load
\* fails before any rendering: no chart routine runs and no raster or
\* dashboard file is written in that run.
C3_FatalLoadAbortsBatch ==
    out.op = "run_full_analysis" /\ primary.state # "ok" =>
        /\ out.ran = <<>>
        /\ out.written = {}
        /\ out.raised = "none"
        /\ out.caught \in {"none", "FileNotFoundError", "JSONDecodeError"}

C3_Witness ==
    /\ out.op = "run_full_analysis"
    /\ primary.state = "corrupt"
    /\ plt
    /\ out.caught = "JSONDecodeError"

\* the rows of self.squad_fit_data all convert (int(Age), float(Fit Score))
RowsConvert ==
    \A i \in 1..Len(squad_fit_data.rows) : ReshapeError(squad_fit_data.rows[i]) = "none"

\* C4: without matplotlib plot_all runs no chart routine, writes no file and
\* raises nothing, only a warning is printed; generate_dashboard on the same
\* visualizer still writes the interactive document.
C4_NoPlottingSkipsRasterOnly ==
    ~plt =>
        /\ out.op = "plot_all" =>
               /\ out.ran = <<>>
               /\ out.written = {}
               /\ out.raised = "none"
               /\ out.notices = <<"matplotlib required for visualizations">>
        /\ out.op = "generate_dashboard" /\ ~ResultsFalsy(results) /\ RowsConvert =>
               /\ out.raised = "none"
               /\ out.written = {"AEGIS_Dashboard.html"}
               /\ files["AEGIS_Dashboard.html"].kind = "dashboard"
        /\ \A f \in RasterFiles : files[f] = NoChart

C4_Witness ==
    /\ ~plt
    /\ out.op = "plot_all"
    /\ out.notices # <<>>
    /\ files["AEGIS_Dashboard.html"] # NoChart

-----------------------------------------------------------------------------
(* Claims about the renderers called in any order (SpecRender) *)

Renderers == Range(Routines) \cup {"generate_dashboard"}

\* the visualizer as load_results leaves a new one, given the input files
Loaded == load_results_do(NewVisualizer(plt), primary, csv).self

\* C5: no renderer mutates the loaded data model: whatever chart routines and
\* generate_dashboard have run since load_results, self.results (with the
\* order and values of dna_dimensions, ideal_xi and recruitment) and
\* self.squad_fit_data are what load_results stored.
C5_RenderersDoNotMutate ==
    IF results.isNone
    THEN results = NoResults /\ squad_fit_data = NoRows
    ELSE /\ results = SomeResults(primary.doc)
         /\ squad_fit_data = (IF csv.exists THEN SomeRows(csv.rows) ELSE NoRows)

C5_Witness ==
    /\ ~results.isNone
    /\ squad_fit_data.rows # <<>>
    /\ out.op = "plot_squad_fit"
    /\ \A f \in FileNames : files[f] # NoChart

\* C6: the chart routines and the dashboard assembly are order-insensitive:
\* in whatever order they are called after load_results on the same inputs,
\* each call produces its artifact or not as it would right after the load,
\* and each artifact produced is drawn from the same data.
C6_OrderInsensitive ==
    /\ \A op \in Renderers :
          files[FileOf(op)] # NoChart =>
              files[FileOf(op)] = Routine(op, Loaded, csv).chart
    /\ out.op \in Renderers /\ ~results.isNone =>
          out.written = (IF Routine(out.op, Loaded, csv).wrote THEN {FileOf(out.op)} ELSE {})

C6_Witness ==
    /\ out.op = "plot_dna_radar"
    /\ out.written = {"01_manager_dna_radar.png"}
    /\ files["AEGIS_Dashboard.html"] # NoChart
    /\ files["07_executive_summary.png"] # NoChart
    /\ files["03_squad_fit_scores.png"] = NoChart

-----------------------------------------------------------------------------
(* Claims about the colour policy (Spec) *)

\* every coloured item whose label is outside `known` has the slate colour
FallsBack(items, known) ==
    \A i \in 1..Len(items) : items[i].label \notin known => items[i].color = "#64748b"

\* C7: a classification or urgency label outside the known sets is given the
\* neutral fallback colour #64748b wherever a label is turned into a colour:
\* static squad-fit bars, static recruitment bars, dashboard squad bars and
\* table badges, dashboard recruitment badges.
C7_FallbackColourEverywhere ==
    /\ files["03_squad_fit_scores.png"] # NoChart =>
          FallsBack(files["03_squad_fit_scores.png"].bars, Range(ClassificationLabels))
    /\ files["06_recruitment_priorities.png"] # NoChart =>
          FallsBack(files["06_recruitment_priorities.png"].bars, Range(UrgencyLabels))
    /\ files["AEGIS_Dashboard.html"] # NoChart =>
          /\ FallsBack(files["AEGIS_Dashboard.html"].squadChart, Range(ClassificationLabels))
          /\ FallsBack(files["AEGIS_Dashboard.html"].squadTable, Range(ClassificationLabels))
          /\ FallsBack(files["AEGIS_Dashboard.html"].recruitmentTable, Range(UrgencyLabels))

-----------------------------------------------------------------------------
(* Claims about the radar geometry (SpecRadar) *)

\* the direction of a vertex on the screen, in degrees clockwise from the
\* positive x axis: SVG coordinates have y downwards, so an SVG angle is
\* clockwise; the polar axes of plt.subplots(subplot_kw=dict(polar=True)),
\* left at their defaults, count theta counter-clockwise from the same axis
Clockwise(axes, theta) == IF axes = "svg" THEN theta ELSE Frac(0 - theta.num, theta.den)

\* two angles that differ by whole turns
SameDirection(a, b) == (a.num * b.den - b.num * a.den) % (Turn * a.den * b.den) = 0

\* i * (360 / n) - 90
ClaimedAngle(i, n) == Frac(i * Turn - 90 * n, n)

AnglesAsClaimed(axes, vs, n) ==
    \A i \in 0..(n - 1) : SameDirection(Clockwise(axes, vs[i + 1].theta), ClaimedAngle(i, n))

StaticRadar == files["01_manager_dna_radar.png"]
DashboardRadar == files["AEGIS_Dashboard.html"].radar
InputDims == primary.doc.dna_dimensions

\* C8: for n >= 1 dimensions, vertex i of the radar is at i * (360 / n) - 90
\* degrees (first axis up, the next ones clockwise), in the static radar and
\* in the dashboard radar.
C8_RadarAngles ==
    /\ StaticRadar # NoChart /\ Len(InputDims) >= 1 =>
          AnglesAsClaimed(StaticRadar.axes, StaticRadar.vertices, Len(InputDims))
    /\ files["AEGIS_Dashboard.html"] # NoChart /\ Len(InputDims) >= 1 =>
          AnglesAsClaimed(DashboardRadar.axes, DashboardRadar.points, Len(InputDims))

\* the polygon drawn: the path's points, and the first again when the path
\* ends with Z (closepath)
Polygon(radar) ==
    IF radar.closepath /\ radar.points # <<>>
    THEN radar.points \o <<radar.points[1]>>
    ELSE radar.points

\* vertex k of polygon vs is at (value / 100) * R from the centre
RadiusAsClaimed(vs, R) ==
    /\ Len(vs) = Len(InputDims) + 1
    /\ \A k \in 1..Len(InputDims) :
          /\ vs[k].r.num * 100 = InputDims[k].value * R * vs[k].r.den
          /\ InputDims[k].value = 0 => vs[k].r.num = 0
          /\ InputDims[k].value = 100 => vs[k].r.num = R * vs[k].r.den
          /\ \A j \in 1..Len(InputDims) :
                InputDims[k].value <= InputDims[j].value =>
                    vs[k].r.num * vs[j].r.den <= vs[j].r.num * vs[k].r.den
    /\ vs[Len(vs)].r = vs[1].r
    /\ vs[Len(vs)].theta = vs[1].theta

\* C9: for values in [0,100] the vertex radius is (value / 100) * R, so it is
\* monotonic in the value, 0 at the centre and R at value 100, and the
\* polygon is closed by repeating the first vertex; static and dashboard.
C9_RadarRadius ==
    /\ StaticRadar # NoChart /\ Len(InputDims) >= 1 =>
          RadiusAsClaimed(StaticRadar.vertices, StaticRadar.outer)
    /\ files["AEGIS_Dashboard.html"] # NoChart /\ Len(InputDims) >= 1 =>
          RadiusAsClaimed(Polygon(DashboardRadar), DashboardRadar.outer)

C9_Witness ==
    /\ InputDims = DimsExample
    /\ StaticRadar # NoChart
    /\ files["AEGIS_Dashboard.html"] # NoChart
    /\ StaticRadar.vertices[1].r = Frac(100, 1)
    /\ StaticRadar.vertices[2].r = Frac(0, 1)
    /\ Len(StaticRadar.vertices) = 4

-----------------------------------------------------------------------------
(* Claims about the squad ranking (SpecSquad) *)

SquadChartFile == files["03_squad_fit_scores.png"]

\* ranked is rows in a stable descending order of score: a rearrangement p
\* of the positions, scores non-increasing, equal scores in source order
StableDescending(ranked, rows) ==
    /\ Len(ranked) = Len(rows)
    /\ \E p \in Permutations(1..Len(rows)) :
          /\ \A i \in 1..Len(rows) : ranked[i] = rows[p[i]]
          /\ \A i, j \in 1..Len(rows) :
                i < j => /\ FloatOf(ranked[i].Fit_Score) >= FloatOf(ranked[j].Fit_Score)
                         /\ FloatOf(ranked[i].Fit_Score) = FloatOf(ranked[j].Fit_Score)
                                => p[i] < p[j]

\* C10: the squad-fit ranking is a stable descending sort by fit_score: a
\* permutation of the rows of the table, scores non-increasing, rows of
\* equal score in their order in the table.
C10_StableDescendingRanking ==
    SquadChartFile # NoChart =>
        /\ StableDescending(MapSeq(SquadChartFile.bars, LAMBDA b : b.row), csv.rows)
        /\ \A i \in 1..Len(SquadChartFile.bars) :
              SquadChartFile.bars[i].score = FloatOf(SquadChartFile.bars[i].row.Fit_Score)

C10_Witness ==
    /\ csv.rows = <<Row("Udogie", "LB", "24", "75.0", "Rotation"),
                    Row("Kane", "CF", "31", "88", "Key Enabler"),
                    Row("Son", "LW", "31", "75", "Good Fit")>>
    /\ SquadChartFile # NoChart
    /\ MapSeq(SquadChartFile.bars, LAMBDA b : b.name) = <<"Kane", "Udogie", "Son">>

-----------------------------------------------------------------------------
(* The classification pie over every summary with counts up to MaxCount *)

Summaries ==
    {Summary(ke, gf, sd, mg) : ke, gf, sd, mg \in 0..MaxCount}
        \cup {EmptySummary, [Summary(2, 0, 1, 0) EXCEPT !.has = {"key_enablers", "total"}]}

InitPie ==
    InitWith({PrimaryFile(Doc(AllKeys, DimsExample, sm, XiGood, RecGood)) : sm \in Summaries},
             {CsvAbsent})

NextPie ==
    \/ load_results
    \/ plot_classification_pie

SpecPie == InitPie /\ [][NextPie]_vars

PieFile == files["04_classification_pie.png"]

\* the counts plot_classification_pie reads, by label
CountOf(label) ==
    LET summary == Get(primary.doc, "squad_summary", EmptySummary)
    IN  CASE label = "Key Enabler" -> Get(summary, "key_enablers", 0)
          [] label = "Good Fit" -> Get(summary, "good_fit", 0)
          [] label = "System Dependent" -> Get(summary, "system_dependent", 0)
          [] OTHER -> Get(summary, "marginalised", 0)

CountTotal == SumSeq(MapSeq(ClassificationLabels, CountOf))

\* C11: the classification pie has exactly one wedge per label whose count
\* is > 0 and none for a label whose count is 0; a wedge's share of the
\* circle is its count over the total, and the percentage texts add up to
\* 100 up to the rounding of each (half a point per wedge).
C11_PieWedgesPerPositiveCount ==
    PieFile # NoChart =>
        /\ \A l \in Range(ClassificationLabels) :
              Cardinality({i \in 1..Len(PieFile.wedges) : PieFile.wedges[i].label = l})
                  = (IF CountOf(l) > 0 THEN 1 ELSE 0)
        /\ \A i \in 1..Len(PieFile.wedges) :
              /\ PieFile.wedges[i].label \in Range(ClassificationLabels)
              /\ PieFile.wedges[i].share.num * CountTotal
                     = CountOf(PieFile.wedges[i].label) * PieFile.wedges[i].share.den
              /\ 2 * (PieFile.wedges[i].autopct * CountTotal
                        - 100 * CountOf(PieFile.wedges[i].label)) \in (0 - CountTotal)..CountTotal
        /\ 2 * (SumSeq(MapSeq(PieFile.wedges, LAMBDA w : w.autopct)) - 100)
               \in (0 - Len(PieFile.wedges))..Len(PieFile.wedges)

C11_Witness ==
    /\ PieFile # NoChart
    /\ CountOf("Good Fit") = 0
    /\ CountOf("Key Enabler") = 1
    /\ CountOf("System Dependent") = 1
    /\ CountOf("Potentially Marginalised") = 1
    /\ MapSeq(PieFile.wedges, LAMBDA w : w.autopct) = <<33, 33, 33>>

-----------------------------------------------------------------------------
(* The pitch over every ideal XI of at most MaxXi assignments *)

\* assignments with a slot of the table, an unknown slot ("SS"), no position,
\* no fit_score, an empty name, and scores on both sides of 60 and of 75
Assignments ==
    {Player("GK", "Vicario ", 74), Player("CF", "Harry Kane", 75),
     Player("SS", "Son", 100), Player("LB", "Udogie", 60), Player("CM", "Sarr", 59),
     [Player("RW", "Kulusevski", 0) EXCEPT !.has = {"position", "name"}],
     [Player("", "Gray", 88) EXCEPT !.has = {"name", "fit_score"}],
     Player("CB1", "", 62)}

InitPitch ==
    InitWith({PrimaryFile(Doc(AllKeys, DimsExample, Summary(2, 1, 1, 0), xi, RecGood)) :
                  xi \in SeqsUpTo(Assignments, MaxXi)},
             {CsvAbsent})

NextPitch ==
    \/ load_results
    \/ plot_ideal_xi
    \/ generate_dashboard

SpecPitch == InitPitch /\ [][NextPitch]_vars

StaticPitch == files["05_ideal_xi_pitch.png"]
DashboardFile == files["AEGIS_Dashboard.html"]
InputXi == Get(primary.doc, "ideal_xi", <<>>)

\* the 11 slots of the 4-3-3
Slots == {"GK", "LB", "CB1", "CB2", "RB", "DM", "CM", "AM", "LW", "CF", "RW"}

\* the assignments of the input whose position key is one of the 11 slots
KnownSlot(xi) == SelectSeq(xi, LAMBDA p : Has(p, "position") /\ p.position \in Slots)

\* markers are, in order, those of the assignments with a known slot
MarkersOfKnown(markers) ==
    /\ Len(markers) = Len(KnownSlot(InputXi))
    /\ \A i \in 1..Len(markers) :
          /\ markers[i].slot = KnownSlot(InputXi)[i].position
          /\ markers[i].score = Get(KnownSlot(InputXi)[i], "fit_score", 0)

\* C12: the pitch omits every assignment whose position key is not one of
\* the 11 slots and draws a marker for every assignment whose key is one,
\* for any mix and order of keys, and raises no error: static and dashboard.
C12_UnknownSlotsOmitted ==
    /\ out.op = "plot_ideal_xi" /\ plt /\ ~results.isNone =>
          out.raised = "none" /\ out.written = {"05_ideal_xi_pitch.png"}
    /\ StaticPitch # NoChart => MarkersOfKnown(StaticPitch.markers)
    /\ DashboardFile # NoChart => MarkersOfKnown(DashboardFile.pitch)

\* C15: the dashboard's pitch coordinate table is the static renderer's: the
\* same 11 slot keys, each mapped to the same (x, y), so an assignment is
\* drawn at the same coordinates in both artifacts.
C15_SamePitchTable ==
    /\ DOMAIN IdealXIPitch_positions = Slots
    /\ DOMAIN positions = Slots
    /\ StaticPitch # NoChart /\ DashboardFile # NoChart =>
          /\ Len(StaticPitch.markers) = Len(DashboardFile.pitch)
          /\ \A i \in 1..Len(StaticPitch.markers) :
                /\ StaticPitch.markers[i].slot = DashboardFile.pitch[i].slot
                /\ StaticPitch.markers[i].x = DashboardFile.pitch[i].x
                /\ StaticPitch.markers[i].y = DashboardFile.pitch[i].y

\* the tier colour the claim gives a score
ClaimedTier(score) ==
    CASE score >= 75 -> "#22c55e"
      [] score >= 60 /\ score <= 74 -> "#eab308"
      [] score < 60 -> "#f97316"

ColoursAsClaimed(markers) ==
    \A i \in 1..Len(markers) :
        markers[i].color = ClaimedTier(Get(KnownSlot(InputXi)[i], "fit_score", 0))

\* C20: a pitch marker's colour is tiered by fit_score, one tier per score:
\* >= 75 the Key Enabler colour, 60 to 74 the Good Fit colour, below 60 the
\* System Dependent colour, a missing fit_score counting as 0; the static
\* pitch and the dashboard pitch give every assignment the same tier.
C20_ScoreTiers ==
    /\ StaticPitch # NoChart => ColoursAsClaimed(StaticPitch.markers)
    /\ DashboardFile # NoChart => ColoursAsClaimed(DashboardFile.pitch)
    /\ StaticPitch # NoChart /\ DashboardFile # NoChart =>
          MapSeq(StaticPitch.markers, LAMBDA m : m.color)
              = MapSeq(DashboardFile.pitch, LAMBDA m : m.color)

C20_Witness ==
    /\ StaticPitch # NoChart
    /\ DashboardFile # NoChart
    /\ MapSeq(StaticPitch.markers, LAMBDA m : m.score) = <<75, 74, 0>>
    /\ MapSeq(DashboardFile.pitch, LAMBDA m : m.color) = <<"#22c55e", "#eab308", "#f97316">>
    /\ ~Has(InputXi[3], "fit_score")

-----------------------------------------------------------------------------
(* The executive summary and the dashboard totals over ideal XIs of at most *)
(* MaxTop entries and recruitment lists of at most MaxNeeds entries         *)

TopPlayers ==
    {Player("CM", "Sarr", 60), Player("CF", "Harry Kane", 88), Player("CB1", "", 62)}

\* the last entry has neither cost_low nor cost_high
SomeNeeds ==
    {Need("CB", 10, "Critical", "January", 10, 20), Need("LW", 5, "Low", "Summer", 5, 8),
     [Need("DM", 3, "High", "Summer", 0, 0) EXCEPT
          !.has = {"position", "gap", "urgency", "timeline"}]}

SummaryDocs ==
    {Doc(AllKeys, DimsExample, Summary(2, 1, 1, 0), xi, RecGood) :
         xi \in SeqsUpTo(TopPlayers, MaxTop)}
    \cup {Doc(AllKeys, DimsExample, Summary(2, 1, 1, 0), XiGood, rec) :
              rec \in SeqsUpTo(SomeNeeds, MaxNeeds)}
    \cup {Doc(AllKeys, <<>>, Summary(0, 0, 0, 0), <<>>, <<>>), DocSparse, EmptyDoc}

InitSummary == InitWith({PrimaryFile(d) : d \in SummaryDocs}, {CsvAbsent})

NextSummary ==
    \/ load_results
    \/ plot_executive_summary
    \/ generate_dashboard

SpecSummary == InitSummary /\ [][NextSummary]_vars

SummaryFile == files["07_executive_summary.png"]
InputRec == Get(primary.doc, "recruitment", <<>>)

\* sum of a cost field over entries k..Len(rec) of rec, a missing cost as 0
RECURSIVE CostFrom(_, _, _)
CostFrom(rec, field, k) ==
    IF k > Len(rec) THEN 0
    ELSE (IF field \in rec[k].has THEN rec[k][field] ELSE 0) + CostFrom(rec, field, k + 1)

\* C13: the total investment figure is sum(cost_low) to sum(cost_high) over
\* all recruitment entries, not only the four of the mini chart, in the
\* executive summary and in the dashboard; 15 to 28 for the list
\* [{10, 20}, {5, 8}] and 0 to 0 for an empty list.
C13_TotalInvestment ==
    /\ SummaryFile # NoChart =>
          /\ SummaryFile.total_low = CostFrom(InputRec, "cost_low", 1)
          /\ SummaryFile.total_high = CostFrom(InputRec, "cost_high", 1)
          /\ InputRec = RecGood => SummaryFile.total_low = 15 /\ SummaryFile.total_high = 28
          /\ InputRec = <<>> => SummaryFile.total_low = 0 /\ SummaryFile.total_high = 0
    /\ DashboardFile # NoChart /\ ~results.isNone /\ results.doc = primary.doc =>
          /\ DashboardFile.totalInvestLow = CostFrom(InputRec, "cost_low", 1)
          /\ DashboardFile.totalInvestHigh = CostFrom(InputRec, "cost_high", 1)
          /\ InputRec = RecGood =>
                 DashboardFile.totalInvestLow = 15 /\ DashboardFile.totalInvestHigh = 28
          /\ InputRec = <<>> =>
                 DashboardFile.totalInvestLow = 0 /\ DashboardFile.totalInvestHigh = 0

C13_Witness ==
    /\ Len(InputRec) = 5
    /\ SummaryFile # NoChart
    /\ DashboardFile # NoChart
    /\ SummaryFile.total_low = 40
    /\ SummaryFile.total_high = 76
    /\ DashboardFile.totalInvestLow = 40
    /\ Len(SummaryFile.needs) = 4

\* an entry of the top-5 panel the panel cannot be built from: no name, a
\* name with no token, or no fit_score; and likewise an entry of the top-4
\* recruitment panel with no position or no gap
BadTopEntry(p) ==
    \/ ~Has(p, "name")
    \/ p.name \in {"", " "}
    \/ ~Has(p, "fit_score")
BadNeedEntry(r) == ~Has(r, "position") \/ ~Has(r, "gap")

\* C14: the executive summary never aborts because a sub-list is empty: an
\* error comes only from an entry of a non-empty list; with an empty
\* ideal_xi the top-5 panel is empty, and likewise an empty recruitment
\* list, empty dna_dimensions and all-zero counts give an empty panel, the
\* file 07 being written.
C14_EmptyListsNeverAbort ==
    /\ out.op = "plot_executive_summary" /\ plt /\ ~results.isNone =>
          /\ out.raised # "none" =>
                 \/ \E i \in 1..Min(5, Len(InputXi)) : BadTopEntry(InputXi[i])
                 \/ \E i \in 1..Min(4, Len(InputRec)) : BadNeedEntry(InputRec[i])
          /\ out.raised = "none" => out.written = {"07_executive_summary.png"}
    /\ SummaryFile # NoChart =>
          /\ InputXi = <<>> => SummaryFile.top5 = <<>>
          /\ InputRec = <<>> => SummaryFile.needs = <<>> /\ SummaryFile.signings = 0
          /\ Get(primary.doc, "dna_dimensions", <<>>) = <<>> => SummaryFile.dna_bars = <<>>
          /\ PieWedges(Get(primary.doc, "squad_summary", EmptySummary)) = <<>> =>
                 SummaryFile.pie = <<>>

C14_Witness ==
    /\ out.op = "plot_executive_summary"
    /\ out.written = {"07_executive_summary.png"}
    /\ InputXi = <<>>
    /\ InputRec # <<>>
    /\ SummaryFile.top5 = <<>>

\* the scores `shown` are those of five entries of xi that no entry left
\* out exceeds
FiveHighest(shown, xi) ==
    \E S \in SUBSET (1..Len(xi)) :
        /\ Cardinality(S) = 5
        /\ \A v \in {xi[i].fit_score : i \in 1..Len(xi)} :
              Cardinality({i \in S : xi[i].fit_score = v})
                  = Cardinality({k \in 1..Len(shown) : shown[k].score = v})
        /\ \A i \in S : \A j \in (1..Len(xi)) \ S : xi[j].fit_score <= xi[i].fit_score

\* C19: the top-5 panel of the executive summary shows the five ideal_xi
\* entries with the highest fit_score: with more than five entries, no entry
\* left out has a fit_score strictly greater than an entry shown.
C19_TopFiveByScore ==
    SummaryFile # NoChart /\ Len(InputXi) > 5 =>
        /\ Len(SummaryFile.top5) = 5
        /\ FiveHighest(SummaryFile.top5, InputXi)

-----------------------------------------------------------------------------
(* Claims about the colour tables, the notices and the missing table (Spec) *)

SquadFile == files["03_squad_fit_scores.png"]
RecruitmentFile == files["06_recruitment_priorities.png"]

\* every item of a static chart (legend entry or bar) whose label is in the
\* dashboard's table has the colour the table gives the label
SameColours(items, table) ==
    \A i \in 1..Len(items) :
        items[i].label \in DOMAIN table => items[i].color = table[items[i].label]

\* C16: the dashboard and the static renderer use the same colour tables:
\* each of the four classification labels and each of the three urgency
\* labels has the same colour in the generated document as in the static
\* charts (legends and bars).
C16_SameColourTables ==
    DashboardFile # NoChart =>
        /\ DOMAIN DashboardFile.classificationColors = Range(ClassificationLabels)
        /\ DOMAIN DashboardFile.urgencyColors = Range(UrgencyLabels)
        /\ SquadFile # NoChart =>
              /\ MapSeq(SquadFile.legend, LAMBDA e : e.label) = ClassificationLabels
              /\ SameColours(SquadFile.legend, DashboardFile.classificationColors)
              /\ SameColours(SquadFile.bars, DashboardFile.classificationColors)
        /\ RecruitmentFile # NoChart =>
              /\ MapSeq(RecruitmentFile.legend, LAMBDA e : e.label) = UrgencyLabels
              /\ SameColours(RecruitmentFile.legend, DashboardFile.urgencyColors)
              /\ SameColours(RecruitmentFile.bars, DashboardFile.urgencyColors)
        /\ files["04_classification_pie.png"] # NoChart =>
              SameColours(files["04_classification_pie.png"].wedges,
                          DashboardFile.classificationColors)

C16_Witness ==
    /\ DashboardFile # NoChart
    /\ SquadFile # NoChart
    /\ RecruitmentFile # NoChart
    /\ files["04_classification_pie.png"] # NoChart
    /\ \E i \in 1..Len(RecruitmentFile.bars) : RecruitmentFile.bars[i].label = "Critical"

\* the routines of a batch that returned: all that were entered, but the
\* last one when an exception left the batch
Returned(o) == IF o.raised = "none" THEN o.ran ELSE SubSeq(o.ran, 1, Len(o.ran) - 1)

\* C17: every chart routine plot_all invokes and that returns has either
\* written its file and reported success, or written no file and reported
\* a skip notice: one line per routine, the success line exactly for the
\* routines whose file was written.
C17_PerArtifactStatus ==
    out.op = "plot_all" /\ plt =>
        /\ Len(out.notices) = Len(Returned(out))
        /\ \A i \in 1..Min(Len(out.notices), Len(Returned(out))) :
              (FileOf(Returned(out)[i]) \in out.written)
                  <=> (out.notices[i] = "ok " \o FileOf(Returned(out)[i]))

\* C18: when squad_fit_scores.csv is missing and the primary document is
\* present (and not empty), nothing fails for that reason: right after a
\* successful load_results, generate_dashboard writes the document with an
\* empty embedded squad row list and empty squad panels, and plot_all skips
\* the squad-fit chart with its notice and goes on with the other routines.
C18_MissingCsvTolerated ==
    [][out.op = "load_results" /\ out.raised = "none" /\ ~csv.exists
           /\ ~ResultsFalsy(results) =>
          /\ out'.op = "generate_dashboard" =>
                /\ out'.raised = "none"
                /\ out'.written = {"AEGIS_Dashboard.html"}
                /\ out'.charts["AEGIS_Dashboard.html"].squadFit = <<>>
                /\ out'.charts["AEGIS_Dashboard.html"].squadChart = <<>>
                /\ out'.charts["AEGIS_Dashboard.html"].squadTable = <<>>
          /\ out'.op = "plot_all" /\ plt =>
                /\ "03_squad_fit_scores.png" \notin out'.written
                /\ "No squad fit data" \in Range(out'.notices)
                /\ out'.raised = "none" => out'.ran = Routines
                /\ out'.raised # "none" =>
                       /\ out'.ran[Len(out'.ran)] # "plot_squad_fit"
                       /\ "plot_classification_pie" \in Range(out'.ran)]_vars

-----------------------------------------------------------------------------
(* Claims about the skips and the routines called one by one (SpecRender) *)

\* C21: plot_squad_fit with an empty row list, and plot_recruitment with an
\* empty recruitment list, skip with a notice: the call raises nothing,
\* writes no file and leaves every artifact of the output directory as it
\* was.
C21_EmptyListsSkip ==
    [][/\ out'.op = "plot_squad_fit" /\ (~csv.exists \/ csv.rows = <<>>) =>
              /\ out'.raised = "none"
              /\ out'.written = {}
              /\ out'.notices = <<"No squad fit data">>
              /\ files' = files
       /\ out'.op = "plot_recruitment" /\ ~results.isNone
              /\ Get(results.doc, "recruitment", <<>>) = <<>> =>
              /\ out'.raised = "none"
              /\ out'.written = {}
              /\ out'.notices = <<"No recruitment priorities">>
              /\ files' = files]_vars

C21_Witness ==
    /\ out.op = "plot_squad_fit"
    /\ out.notices = <<"No squad fit data">>
    /\ csv = CsvFile(<<>>)
    /\ files["03_squad_fit_scores.png"] = NoChart
    /\ files["AEGIS_Dashboard.html"] # NoChart
    /\ files["01_manager_dna_radar.png"] # NoChart


-----------------------------------------------------------------------------
(* Claims about the batch, the loader and the dashboard (Spec) *)

\* the inputs a complete batch needs: matplotlib, a loaded document with a
\* recruitment list and a non-zero classification count, and squad rows, in
\* the file and in memory, whose cells all convert
CompleteInputs ==
    /\ plt
    /\ ~results.isNone
    /\ csv.exists /\ csv.rows # <<>>
    /\ \A i \in 1..Len(csv.rows) : ReshapeError(csv.rows[i]) = "none"
    /\ squad_fit_data.rows # <<>> /\ RowsConvert
    /\ Get(results.doc, "recruitment", <<>>) # <<>>
    /\ PieWedges(Get(results.doc, "squad_summary", EmptySummary)) # <<>>

\* C22: a plot_all run with matplotlib, a loaded document, non-empty squad
\* rows, a non-empty recruitment list and a non-zero classification count
\* writes exactly the seven raster files 01 to 07, one per chart in the fixed
\* chart order.
C22_SevenRasterFiles ==
    out.op = "plot_all" /\ CompleteInputs =>
        /\ out.raised = "none"
        /\ out.ran = Routines
        /\ out.written = RasterFiles
        /\ out.notices = MapSeq(Routines, LAMBDA op : "ok " \o FileOf(op))

\* the dashboard document the last call wrote
Embedded == out.charts["AEGIS_Dashboard.html"]

\* the k-th embedded row is the k-th loaded row, reshaped
RowEmbedded(k) ==
    LET p == squad_fit_data.rows[k]
        e == Embedded.squadFit[k]
    IN  /\ DOMAIN e = {"name", "position", "age", "score", "classification"}
        /\ e.name = p.Name
        /\ e.position = p.Position
        /\ e.age = IntOf(p.Age)
        /\ e.score = FloatOf(p.Fit_Score)
        /\ e.classification = p.Classification

\* C23: generate_dashboard only serializes: the document it writes embeds
\* dna_dimensions, squad_summary, ideal_xi and recruitment as loaded (same
\* entries, same order) and exactly one row per loaded squad row, in source
\* order, reshaped to {name, position, age, score, classification}.
C23_DashboardOnlySerializes ==
    out.op = "generate_dashboard" /\ out.raised = "none" =>
        /\ Embedded.dnaDimensions = Get(results.doc, "dna_dimensions", <<>>)
        /\ Embedded.squadSummary = Get(results.doc, "squad_summary", EmptySummary)
        /\ Embedded.idealXI = Get(results.doc, "ideal_xi", <<>>)
        /\ Embedded.recruitment = Get(results.doc, "recruitment", <<>>)
        /\ Len(Embedded.squadFit) = Len(squad_fit_data.rows)
        /\ \A k \in 1..Len(squad_fit_data.rows) : RowEmbedded(k)

C23_Witness ==
    /\ out.op = "generate_dashboard"
    /\ out.raised = "none"
    /\ Len(Embedded.squadFit) = 3
    /\ Embedded.squadFit[2].score > Embedded.squadFit[1].score
    /\ Len(Embedded.idealXI) = 3
    /\ Len(Embedded.recruitment) = 2

-----------------------------------------------------------------------------
(* The dashboard's ranking over squads of at most MaxSquad players *)

\* the score cell of the i-th row in each pattern of scores: all equal; a
\* repeating run; the highest scores behind the fifteenth row; alternating
ScoreCell(pattern, i) ==
    CASE pattern = 1 -> "75"
      [] pattern = 2 -> <<"60", "88", "75", "40", "75.0">>[((i - 1) % 5) + 1]
      [] pattern = 3 -> IF i <= 15 THEN "60" ELSE "88"
      [] OTHER -> IF i % 2 = 1 THEN "40" ELSE "88"

\* squad_fit_scores.csv with n rows, every player under a name of their own
Squad(pattern, n) ==
    [i \in 1..n |-> Row("P" \o ToString(i), "CM", "24", ScoreCell(pattern, i), "Good Fit")]

Squads == {Squad(pattern, n) : pattern \in 1..4, n \in 0..MaxSquad}

InitRanking == InitWith({PrimaryFile(DocGood)}, {CsvFile(rs) : rs \in Squads})

NextRanking ==
    \/ load_results
    \/ generate_dashboard

SpecRanking == InitRanking /\ [][NextRanking]_vars

\* the place of the player called `name` in the embedded array
EmbeddedAt(name) == CHOOSE k \in 1..Len(Embedded.squadFit) : Embedded.squadFit[k].name = name

ShownNames == {Embedded.squadChart[i].name : i \in 1..Len(Embedded.squadChart)}

\* C24: the dashboard's squad ranking shows the top 15 rows by score, sorted
\* stably and descending: it holds min(15, number of rows) of the embedded
\* rows, its scores never increase, no omitted row scores more than a shown
\* one, rows of equal score keep their embedded order, and the embedded array
\* itself stays in source order.
C24_TopFifteenRanking ==
    out.op = "generate_dashboard" /\ out.raised = "none" =>
        LET rows == Embedded.squadFit
            shown == Embedded.squadChart
        IN  /\ Len(shown) = Min(15, Len(rows))
            /\ Cardinality(ShownNames) = Len(shown)
            /\ \A i \in 1..Len(shown) :
                   \E k \in 1..Len(rows) :
                       rows[k].name = shown[i].name /\ rows[k].score = shown[i].score
            /\ \A i, j \in 1..Len(shown) :
                   i < j =>
                       /\ shown[i].score >= shown[j].score
                       /\ shown[i].score = shown[j].score =>
                              EmbeddedAt(shown[i].name) < EmbeddedAt(shown[j].name)
            /\ \A k \in 1..Len(rows) :
                   rows[k].name \notin ShownNames =>
                       \A i \in 1..Len(shown) :
                           /\ rows[k].score <= shown[i].score
                           /\ rows[k].score = shown[i].score => EmbeddedAt(shown[i].name) < k
            /\ rows = MapSeq(squad_fit_data.rows, Reshape)

C24_Witness ==
    /\ out.op = "generate_dashboard"
    /\ out.raised = "none"
    /\ Len(Embedded.squadFit) = 17
    /\ Len(Embedded.squadChart) = 15
    /\ Embedded.squadFit[1].score = 60
    /\ Embedded.squadFit[17].score = 88
    /\ Embedded.squadChart[1].name = "P16"
    /\ Embedded.squadChart[3].name = "P1"

-----------------------------------------------------------------------------
(* The Recruitment tab over every list of at most MaxNeeds entries *)

\* the third entry is planned for a later season, the fourth has no timeline
WindowNeeds ==
    {Need("CB", 10, "Critical", "January", 10, 20), Need("LW", 5, "Low", "Summer", 5, 8),
     Need("DM", 3, "High", "2026/27", 3, 6),
     [Need("RB", 2, "Medium", "", 4, 7) EXCEPT
          !.has = {"position", "gap", "urgency", "cost_low", "cost_high"}]}

InitWindows ==
    InitWith({PrimaryFile(Doc(AllKeys, DimsExample, Summary(2, 1, 1, 0), XiGood, rec)) :
                  rec \in SeqsUpTo(WindowNeeds, MaxNeeds)},
             {CsvAbsent})

NextWindows ==
    \/ load_results
    \/ generate_dashboard

SpecWindows == InitWindows /\ [][NextWindows]_vars

\* the boxes of the Recruitment tab of the document the last call wrote
Windows == Embedded.recruitmentWindows

\* the sum of v[w] over the boxes w of W
RECURSIVE SumOver(_, _)
SumOver(W, v) ==
    IF W = {} THEN 0
    ELSE LET w == CHOOSE x \in W : TRUE IN v[w] + SumOver(W \ {w}, v)

\* what each box shows: its count, and the sums of the costs it lists
Signings == [w \in DOMAIN Windows |-> Windows[w].signings]
SubtotalLow ==
    [w \in DOMAIN Windows |-> SumSeq(MapSeq(Windows[w].items, LAMBDA it : it.cost_low))]
SubtotalHigh ==
    [w \in DOMAIN Windows |-> SumSeq(MapSeq(Windows[w].items, LAMBDA it : it.cost_high))]

\* C25: the Recruitment view partitions the entries by timeline: every entry
\* falls in exactly one partition, so the partition counts add up to the
\* number of entries and the partition subtotals (sum of cost_low, sum of
\* cost_high) add up to the total investment figure.
C25_TimelinePartitions ==
    out.op = "generate_dashboard" /\ out.raised = "none" =>
        /\ SumOver(DOMAIN Windows, Signings) = Len(Embedded.recruitment)
        /\ SumOver(DOMAIN Windows, SubtotalLow) = Embedded.totalInvestLow
        /\ SumOver(DOMAIN Windows, SubtotalHigh) = Embedded.totalInvestHigh

-----------------------------------------------------------------------------
(* Claims about the names on the pitch (SpecPitch) *)

\* the names under the markers are, in order, the last whitespace-delimited
\* tokens of the names of the assignments with a known slot (checked where
\* the name has a token)
LastTokens(markers) ==
    \A i \in 1..Len(markers) :
        LET tokens == Split(Get(KnownSlot(InputXi)[i], "name", ""))
        IN  tokens # <<>> => markers[i].name = tokens[Len(tokens)]

\* C26: the name under a marker is the last whitespace-delimited token of the
\* assignment's name, and whatever the names of the assignments with a known
\* slot (missing, empty or blank included) the routine raises no error and
\* draws every one of them.
C26_SurnameNeverCrashes ==
    /\ out.op = "plot_ideal_xi" /\ plt /\ ~results.isNone =>
          /\ out.raised = "none"
          /\ Len(out.charts["05_ideal_xi_pitch.png"].markers) = Len(KnownSlot(InputXi))
    /\ StaticPitch # NoChart => LastTokens(StaticPitch.markers)
    /\ DashboardFile # NoChart =>
          /\ Len(DashboardFile.pitch) = Len(KnownSlot(InputXi))
          /\ LastTokens(DashboardFile.pitch)

-----------------------------------------------------------------------------
(* Claims about the visualizer between loads and renders (Spec) *)

\* C27: after every load_results call that returns, the squad row list is
\* the content of squad_fit_scores.csv as it was at that call: no rows when
\* the file was absent, whatever an earlier load had stored.
C27_RowsReflectFileAtLoad ==
    out.op = "load_results" /\ out.raised = "none" =>
        squad_fit_data.rows = IF csv.exists THEN csv.rows ELSE <<>>

\* C28: a load_results call that raises (aegis_analysis.json absent or
\* unparsable) leaves the visualizer as it was before the call: results and
\* the squad row list are both unchanged.
C28_FailedLoadKeepsState ==
    [][out'.op = "load_results" /\ out'.raised # "none" =>
          /\ primary.state # "ok"
          /\ results' = results
          /\ squad_fit_data' = squad_fit_data]_vars

C28_Witness ==
    /\ out.op = "load_results"
    /\ out.raised = "JSONDecodeError"
    /\ results = SomeResults(DocGood)
    /\ squad_fit_data = SomeRows(RowsGood)

\* C29: generate_dashboard raises 'No results loaded' and writes no file
\* exactly when no load_results has succeeded on the visualizer; after a
\* successful load, whatever the parsed document holds (no key at all
\* included), it writes the dashboard file.
C29_RaisesOnlyBeforeLoad ==
    out.op = "generate_dashboard" /\ RowsConvert =>
        IF results.isNone
        THEN out.raised = "ValueError" /\ out.written = {}
        ELSE out.raised = "none" /\ out.written = {"AEGIS_Dashboard.html"}

\* C30: the static squad-fit chart is drawn from the rows load_results
\* stored, the rows generate_dashboard embeds: in a batch that reaches
\* plot_squad_fit the chart ranks exactly the stored rows (and is skipped
\* only when there are none), whatever happened to squad_fit_scores.csv
\* since the load.
C30_ChartRanksStoredRows ==
    out.op = "plot_all" /\ "plot_squad_fit" \in Range(out.ran) /\ RowsConvert
        /\ (csv.exists => \A i \in 1..Len(csv.rows) : ReshapeError(csv.rows[i]) = "none") =>
        LET chart == out.charts["03_squad_fit_scores.png"]
        IN  IF squad_fit_data.rows = <<>>
            THEN chart = NoChart
            ELSE /\ chart # NoChart
                 /\ StableDescending(MapSeq(chart.bars, LAMBDA b : b.row), squad_fit_data.rows)

=============================================================================
